---- MODULE Spec2Model ----
(***************************************************************************)
(* NMKeepAlive (src/src/nm-keep-alive.c): the liveness aggregator and its  *)
(* D-Bus client watch, as a state machine.                                  *)
(*                                                                         *)
(* One NMKeepAlive object is modelled together with the collaborators its  *)
(* code talks to: the NMSettingsConnection objects whose VISIBLE flag it   *)
(* reads, the GDBus signal subscriptions it registers, the asynchronous    *)
(* GetNameOwner calls it issues and the NameOwnerChanged signals of the    *)
(* bus.  All handlers run on one main loop, so each handler is one atomic  *)
(* action.                                                                 *)
(***************************************************************************)
EXTENDS Naturals, Sequences, FiniteSets

\* ---------------------------------------------------------------- bounds
\* Number of times nm_keep_alive_set_dbus_client_watch may arm a watch.
MaxArms == 2
\* Number of GetNameOwner calls that may be issued in one behaviour.
MaxCalls == 2

\* ------------------------------------------------------------ value sets
NULL == "NULL"
\* The NMSettingsConnection objects a caller may hand in.
Sources == {"connA", "connB"}
\* The bus names a caller may ask to watch.
Clients == {":1.X", ":1.Y"}
\* The one GDBusConnection of the process.
Buses == {"bus"}
\* An owner that is none of the watched identities, and "no owner".
OtherOwner == "someone.else"
NoOwner == ""
\* The new_owner values a NameOwnerChanged signal may carry.
NewOwners == {NoOwner, OtherOwner}
\* Outcomes of a GetNameOwner call that are not a reply.
CallFailed == "G_IO_ERROR_FAILED"
CallCancelled == "G_IO_ERROR_CANCELLED"

VARIABLES
    priv,             \* NMKeepAlivePrivate
    visible,          \* per NMSettingsConnection: NM_SETTINGS_CONNECTION_INT_FLAGS_VISIBLE
    handlers,         \* connections on which connection_flags_changed is connected
    subs,             \* GDBus signal subscriptions ever made; index = subscription id
    calls,            \* GetNameOwner calls ever issued; index = the call's GCancellable
    signals,          \* NameOwnerChanged deliveries GDBus has queued and will dispatch
    disposed,         \* dispose() has run
    ctorFloating,     \* the argument nm_keep_alive_new was called with
    notifyLog,        \* alive as read at the last two notify::alive emissions
    busEvals,         \* _is_alive_dbus_client evaluations of the current arm (0, 1, 2 = many)
    armCalls,         \* GetNameOwner calls issued for the current arm
    isAliveSinceArm   \* nm_keep_alive_is_alive was called since the current watch was armed

vars == <<priv, visible, handlers, subs, calls, signals, disposed, ctorFloating, notifyLog, busEvals, armCalls, isAliveSinceArm>>

\* ------------------------------------------------------- execution context
\* The state a handler works on, threaded through the helpers it calls.
\* notifies holds the value of alive at each notify::alive the running handler
\* has emitted so far; evals and issued count its _is_alive evaluations and
\* the GetNameOwner calls it has issued.
Begin == [priv |-> priv, visible |-> visible, handlers |-> handlers, subs |-> subs, calls |-> calls, signals |-> signals, busEvals |-> busEvals, armCalls |-> armCalls, isAliveSinceArm |-> isAliveSinceArm, notifies |-> <<>>, evals |-> 0, issued |-> 0]

\* g_dbus_connection_call: a new call in flight, guarded by a new GCancellable.
NewCall(s) == [client |-> s.priv.dbus_client, cancelled |-> FALSE, done |-> FALSE, late |-> FALSE]

\* A call whose completion was delivered; late: it had been cancelled before.
DoneCall(c) == [client |-> NULL, cancelled |-> FALSE, done |-> TRUE, late |-> c.cancelled]

\* Mutant of _is_alive_dbus_client: dbus_client_confirmed is never set.
_is_alive_dbus_client_unconfirmed(s) ==
    IF s.priv.dbus_client = NULL
    THEN [ret |-> FALSE, s |-> s]
    ELSE LET t == [s EXCEPT !.busEvals = IF @ < 2 THEN @ + 1 ELSE 2]
         IN  IF ~t.priv.dbus_client_confirmed
             THEN [ret |-> TRUE, s |-> [t EXCEPT !.priv.dbus_client_confirm_cancellable = Len(t.calls) + 1, !.calls = Append(@, NewCall(t)), !.issued = @ + 1, !.armCalls = @ + 1]]
             ELSE [ret |-> TRUE, s |-> t]

\* _is_alive_dbus_client: [ret, s], the return value and the context afterwards.
_is_alive_dbus_client(s) ==
    IF s.priv.dbus_client = NULL
    THEN [ret |-> FALSE, s |-> s]
    ELSE LET t == [s EXCEPT !.busEvals = IF @ < 2 THEN @ + 1 ELSE 2]
         IN  IF ~t.priv.dbus_client_confirmed
             THEN [ret |-> TRUE, s |-> [t EXCEPT !.priv.dbus_client_confirmed = TRUE, !.priv.dbus_client_confirm_cancellable = Len(t.calls) + 1, !.calls = Append(@, NewCall(t)), !.issued = @ + 1, !.armCalls = @ + 1]]
             ELSE [ret |-> TRUE, s |-> t]

\* Mutant of _is_alive: the bus check is evaluated first.
_is_alive_bus_first(s) ==
    LET r == _is_alive_dbus_client(s)
    IN  IF r.ret
        THEN r
        ELSE [ret |-> (s.priv.floating \/ s.priv.forced \/ (s.priv.connection # NULL /\ s.visible[s.priv.connection])), s |-> r.s]

\* Mutant of _is_alive: the bus check is evaluated before the visibility of
\* the settings connection.
_is_alive_bus_before_visible(s) ==
    IF s.priv.floating \/ s.priv.forced
    THEN [ret |-> TRUE, s |-> s]
    ELSE LET r == _is_alive_dbus_client(s)
         IN  IF r.ret
             THEN r
             ELSE [ret |-> (s.priv.connection # NULL /\ s.visible[s.priv.connection]), s |-> r.s]

\* _is_alive: the derivation, short-circuiting before the bus check.
_is_alive(s) ==
    IF s.priv.floating \/ s.priv.forced
    THEN [ret |-> TRUE, s |-> s]
    ELSE IF s.priv.connection # NULL /\ s.visible[s.priv.connection]
    THEN [ret |-> TRUE, s |-> s]
    ELSE _is_alive_dbus_client(s)

\* Mutant of _notify_alive: notifies after every recomputation.
_notify_alive_always(s) ==
    LET r == _is_alive(s)
        t == [r.s EXCEPT !.evals = @ + 1]
    IN  [t EXCEPT !.priv.alive = r.ret, !.notifies = Append(@, r.ret)]

\* _notify_alive: recompute, and toggle + notify on a difference.
_notify_alive(s) ==
    LET r == _is_alive(s)
        t == [r.s EXCEPT !.evals = @ + 1]
    IN  IF t.priv.alive = r.ret
        THEN t
        ELSE [t EXCEPT !.priv.alive = ~@, !.notifies = Append(@, ~t.priv.alive)]

\* Mutant of nm_clear_g_cancellable: the pointer is cleared without
\* cancelling the call.
nm_clear_g_cancellable_no_cancel(s) == [s EXCEPT !.priv.dbus_client_confirm_cancellable = 0]

\* nm_clear_g_cancellable: cancel the call the pointer refers to and clear the
\* pointer.  Cancelling a call that has completed has no effect.
nm_clear_g_cancellable(s) ==
    IF s.priv.dbus_client_confirm_cancellable = 0
    THEN s
    ELSE [s EXCEPT !.calls[s.priv.dbus_client_confirm_cancellable].cancelled = ~s.calls[s.priv.dbus_client_confirm_cancellable].done, !.priv.dbus_client_confirm_cancellable = 0]

\* g_dbus_connection_signal_unsubscribe: the subscription is removed, and
\* GDBus dispatches none of the deliveries it had queued for it.
signal_unsubscribe(s, id) == [s EXCEPT !.subs[id] = [client |-> NULL, active |-> FALSE], !.signals = {sig \in @ : sig.sub # id}]

\* Mutant of cleanup_dbus_watch: the signal subscription is not released.
cleanup_dbus_watch_keeps_subscription(s) ==
    IF s.priv.dbus_client = NULL
    THEN s
    ELSE [nm_clear_g_cancellable(s) EXCEPT !.priv.dbus_client = NULL, !.priv.dbus_connection = NULL, !.busEvals = 0, !.armCalls = 0, !.isAliveSinceArm = FALSE]

\* cleanup_dbus_watch.  The arm ends here, and with it the per-arm history.
cleanup_dbus_watch(s) ==
    IF s.priv.dbus_client = NULL
    THEN s
    ELSE LET t == [nm_clear_g_cancellable(s) EXCEPT !.priv.dbus_client = NULL, !.busEvals = 0, !.armCalls = 0, !.isAliveSinceArm = FALSE]
         IN  IF t.priv.dbus_connection # NULL
             THEN [signal_unsubscribe(t, t.priv.subscription_id) EXCEPT !.priv.dbus_connection = NULL]
             ELSE t

\* The last two entries of a sequence.
LastTwo(q) == IF Len(q) <= 2 THEN q ELSE SubSeq(q, Len(q) - 1, Len(q))

\* The context a handler ends with becomes the next state.
Commit(s) ==
    /\ Len(s.calls) <= MaxCalls
    /\ Len(s.subs) <= MaxArms
    /\ priv' = s.priv
    /\ visible' = s.visible
    /\ handlers' = s.handlers
    /\ subs' = s.subs
    /\ calls' = s.calls
    /\ signals' = s.signals
    /\ busEvals' = s.busEvals
    /\ armCalls' = s.armCalls
    /\ isAliveSinceArm' = s.isAliveSinceArm
    /\ notifyLog' = LastTwo(notifyLog \o s.notifies)

\* ------------------------------------------------------------ construction
\* nm_keep_alive_new (floating): g_object_new zero-fills the private struct,
\* then floating takes the argument and alive is set.  The nm_assert calls
\* are compiled out of a release build.
nm_keep_alive_new(floating) == [connection |-> NULL, dbus_connection |-> NULL, dbus_client |-> NULL, dbus_client_confirm_cancellable |-> 0, subscription_id |-> 0, floating |-> floating, forced |-> FALSE, alive |-> TRUE, dbus_client_confirmed |-> FALSE]

Init ==
    /\ ctorFloating \in BOOLEAN
    /\ priv = nm_keep_alive_new(ctorFloating)
    /\ visible \in [Sources -> BOOLEAN]
    /\ handlers = {}
    /\ subs = <<>>
    /\ calls = <<>>
    /\ signals = {}
    /\ disposed = FALSE
    /\ notifyLog = <<>>
    /\ busEvals = 0
    /\ armCalls = 0
    /\ isAliveSinceArm = FALSE

\* ---------------------------------------------------------------- mutators
\* nm_keep_alive_is_alive: returns the cached value.  The private struct is
\* only read; the model notes that the armed watch has been queried.
is_alive(s) == [s EXCEPT !.isAliveSinceArm = (s.priv.dbus_client # NULL)]

nm_keep_alive_is_alive ==
    /\ ~disposed
    /\ Commit(is_alive(Begin))
    /\ UNCHANGED <<disposed, ctorFloating>>

\* Mutant of sink: the floating flag is never cleared.
sink_keeps_floating(s) ==
    IF s.priv.floating
    THEN _notify_alive(s)
    ELSE s

\* nm_keep_alive_sink
sink(s) ==
    IF s.priv.floating
    THEN _notify_alive([s EXCEPT !.priv.floating = FALSE])
    ELSE s

nm_keep_alive_sink ==
    /\ ~disposed
    /\ Commit(sink(Begin))
    /\ UNCHANGED <<disposed, ctorFloating>>

\* Mutant of set_forced: no comparison with the current flag.
set_forced_unguarded(s, forced) == _notify_alive([s EXCEPT !.priv.forced = forced])

\* nm_keep_alive_set_forced
set_forced(s, forced) ==
    IF s.priv.forced # forced
    THEN _notify_alive([s EXCEPT !.priv.forced = forced])
    ELSE s

nm_keep_alive_set_forced ==
    /\ ~disposed
    /\ \E forced \in BOOLEAN : Commit(set_forced(Begin, forced))
    /\ UNCHANGED <<disposed, ctorFloating>>

\* connection_flags_changed: the handler connected to the watched connection.
connection_flags_changed(s) == _notify_alive(s)

\* Mutant of _set_settings_connection_watch_visible: no recomputation after
\* the replacement.
_set_settings_connection_watch_visible_silent(s, connection, emit_signal) ==
    IF s.priv.connection = connection
    THEN s
    ELSE LET t == IF s.priv.connection # NULL
                  THEN [s EXCEPT !.handlers = @ \ {s.priv.connection}, !.priv.connection = NULL]
                  ELSE s
         IN  IF connection # NULL
             THEN [t EXCEPT !.priv.connection = connection, !.handlers = @ \cup {connection}]
             ELSE t

\* Mutant of _set_settings_connection_watch_visible: the handler on the old
\* connection is not disconnected.
_set_settings_connection_watch_visible_no_disconnect(s, connection, emit_signal) ==
    IF s.priv.connection = connection
    THEN s
    ELSE LET t == [s EXCEPT !.priv.connection = NULL]
             u == IF connection # NULL
                  THEN [t EXCEPT !.priv.connection = connection, !.handlers = @ \cup {connection}]
                  ELSE t
         IN  IF emit_signal THEN _notify_alive(u) ELSE u

\* _set_settings_connection_watch_visible
_set_settings_connection_watch_visible(s, connection, emit_signal) ==
    IF s.priv.connection = connection
    THEN s
    ELSE LET t == IF s.priv.connection # NULL
                  THEN [s EXCEPT !.handlers = @ \ {s.priv.connection}, !.priv.connection = NULL]
                  ELSE s
             u == IF connection # NULL
                  THEN [t EXCEPT !.priv.connection = connection, !.handlers = @ \cup {connection}]
                  ELSE t
         IN  IF emit_signal THEN _notify_alive(u) ELSE u

\* nm_keep_alive_set_settings_connection_watch_visible
set_settings_connection_watch_visible(s, connection) == _set_settings_connection_watch_visible(s, connection, TRUE)

nm_keep_alive_set_settings_connection_watch_visible ==
    /\ ~disposed
    /\ \E connection \in Sources \cup {NULL} : Commit(set_settings_connection_watch_visible(Begin, connection))
    /\ UNCHANGED <<disposed, ctorFloating>>

\* The owner of a settings connection flips its VISIBLE flag; the connection
\* emits flags-changed to the handlers connected to it (line 168).
set_flags(s, src) ==
    LET t == [s EXCEPT !.visible[src] = ~@]
    IN  IF src \in t.handlers THEN connection_flags_changed(t) ELSE t

nm_settings_connection_set_flags ==
    /\ \E src \in Sources : Commit(set_flags(Begin, src))
    /\ UNCHANGED <<disposed, ctorFloating>>

\* Mutant of set_dbus_client_watch: the existing watch is not cleaned up.
set_dbus_client_watch_no_cleanup(s, connection, client_address) ==
    LET u == IF client_address # NULL
             THEN [s EXCEPT !.priv.dbus_client = client_address, !.priv.dbus_client_confirmed = FALSE, !.priv.dbus_connection = connection, !.priv.subscription_id = Len(s.subs) + 1, !.subs = Append(@, [client |-> client_address, active |-> TRUE]), !.busEvals = 0, !.armCalls = 0, !.isAliveSinceArm = FALSE]
             ELSE s
    IN  _notify_alive(u)

\* Mutant of set_dbus_client_watch: re-arming cancels the call of the old
\* watch but leaves its signal subscription in place.
set_dbus_client_watch_keeps_subscription(s, connection, client_address) ==
    LET t == IF s.priv.dbus_client = NULL
             THEN s
             ELSE [nm_clear_g_cancellable(s) EXCEPT !.priv.dbus_client = NULL, !.priv.dbus_connection = NULL, !.busEvals = 0, !.armCalls = 0, !.isAliveSinceArm = FALSE]
        u == IF client_address # NULL
             THEN [t EXCEPT !.priv.dbus_client = client_address, !.priv.dbus_client_confirmed = FALSE, !.priv.dbus_connection = connection, !.priv.subscription_id = Len(t.subs) + 1, !.subs = Append(@, [client |-> client_address, active |-> TRUE]), !.busEvals = 0, !.armCalls = 0, !.isAliveSinceArm = FALSE]
             ELSE t
    IN  _notify_alive(u)

\* nm_keep_alive_set_dbus_client_watch
set_dbus_client_watch(s, connection, client_address) ==
    LET t == cleanup_dbus_watch(s)
        u == IF client_address # NULL
             THEN [t EXCEPT !.priv.dbus_client = client_address, !.priv.dbus_client_confirmed = FALSE, !.priv.dbus_connection = connection, !.priv.subscription_id = Len(t.subs) + 1, !.subs = Append(@, [client |-> client_address, active |-> TRUE]), !.busEvals = 0, !.armCalls = 0, !.isAliveSinceArm = FALSE]
             ELSE t
    IN  _notify_alive(u)

\* The arguments a caller may pass: a bus connection whenever it passes a
\* client address.
WatchArgs == {a \in (Buses \cup {NULL}) \X (Clients \cup {NULL}) : a[2] # NULL => a[1] # NULL}

nm_keep_alive_set_dbus_client_watch ==
    /\ ~disposed
    /\ \E a \in WatchArgs : Commit(set_dbus_client_watch(Begin, a[1], a[2]))
    /\ UNCHANGED <<disposed, ctorFloating>>

\* Mutant of get_name_owner_cb: a cancellation is handled like a failure.
get_name_owner_cb_no_cancel_check(s, result) ==
    IF result # CallFailed /\ result # CallCancelled /\ result = s.priv.dbus_client
    THEN s
    ELSE _notify_alive(cleanup_dbus_watch(s))

\* Mutant of get_name_owner_cb: the outcome of the call is ignored.
get_name_owner_cb_ignores_outcome(s, result) == s

\* Mutant of get_name_owner_cb: any reply counts as a confirmation, whoever
\* the owner is.
get_name_owner_cb_trusts_reply(s, result) ==
    IF result = CallCancelled
    THEN s
    ELSE IF result # CallFailed
    THEN s
    ELSE _notify_alive(cleanup_dbus_watch(s))

\* Mutant of get_name_owner_cb: the watch is torn down after every completion
\* that was not cancelled, a matching owner included.
get_name_owner_cb_always_teardown(s, result) ==
    IF result = CallCancelled
    THEN s
    ELSE _notify_alive(cleanup_dbus_watch(s))

\* get_name_owner_cb: result is what g_dbus_connection_call_finish hands back,
\* an owner string, CallFailed or CallCancelled.
get_name_owner_cb(s, result) ==
    IF result = CallCancelled
    THEN s
    ELSE IF result # CallFailed /\ result = s.priv.dbus_client
    THEN s
    ELSE _notify_alive(cleanup_dbus_watch(s))

\* What g_dbus_connection_call_finish can return for call i: a cancelled
\* GCancellable always gives G_IO_ERROR_CANCELLED; otherwise the bus answers
\* with the name's owner (the name itself or another one), or the call fails
\* (NameHasNoOwner, bus error).
CallResults(i) ==
    IF calls[i].cancelled
    THEN {CallCancelled}
    ELSE {CallFailed, OtherOwner, calls[i].client}

\* The main loop delivers the completion of call i with the given result.
call_done(s, i, result) == get_name_owner_cb([s EXCEPT !.calls[i] = DoneCall(@)], result)

GetNameOwnerDone ==
    /\ \E i \in 1..Len(calls) :
          /\ ~calls[i].done
          /\ \E result \in CallResults(i) : Commit(call_done(Begin, i, result))
    /\ UNCHANGED <<disposed, ctorFloating>>

\* The bus emits NameOwnerChanged for a name (line 312); GDBus queues one
\* delivery for every subscription matching the name (arg0).
Matching(name) == {j \in 1..Len(subs) : subs[j].active /\ subs[j].client = name}

emit(s, name, new_owner) == [s EXCEPT !.signals = @ \cup {[sub |-> i, name |-> name, new_owner |-> new_owner] : i \in Matching(name)}]

BusNameOwnerChanged ==
    /\ \E name \in Clients, new_owner \in NewOwners :
          /\ Matching(name) # {}
          /\ Commit(emit(Begin, name, new_owner))
    /\ UNCHANGED <<disposed, ctorFloating>>

\* Mutant of name_owner_changed_cb: no recomputation after the cleanup.
name_owner_changed_cb_no_notify(s, new_owner) ==
    IF new_owner # ""
    THEN s
    ELSE cleanup_dbus_watch(s)

\* Mutant of name_owner_changed_cb: a vacated name only triggers a
\* recomputation, the watch stays.
name_owner_changed_cb_keeps_watch(s, new_owner) ==
    IF new_owner # ""
    THEN s
    ELSE _notify_alive(s)

\* name_owner_changed_cb
name_owner_changed_cb(s, new_owner) ==
    IF new_owner # ""
    THEN s
    ELSE _notify_alive(cleanup_dbus_watch(s))

\* The main loop dispatches a queued NameOwnerChanged to the callback of its
\* subscription (line 316).
dispatch(s, sig) ==
    LET t == [s EXCEPT !.signals = @ \ {sig}]
    IN  IF t.subs[sig.sub].active
        THEN name_owner_changed_cb(t, sig.new_owner)
        ELSE t

DeliverNameOwnerChanged ==
    /\ \E sig \in signals : Commit(dispatch(Begin, sig))
    /\ UNCHANGED <<disposed, ctorFloating>>

\* Mutant of dispose: the bus watch is not cleaned up.
dispose_no_cleanup(s) == _set_settings_connection_watch_visible(s, NULL, FALSE)

\* dispose
dispose(s) == cleanup_dbus_watch(_set_settings_connection_watch_visible(s, NULL, FALSE))

Dispose ==
    /\ ~disposed
    /\ disposed' = TRUE
    /\ Commit(dispose(Begin))
    /\ UNCHANGED <<ctorFloating>>

Next ==
    \/ nm_keep_alive_is_alive
    \/ nm_keep_alive_sink
    \/ nm_keep_alive_set_forced
    \/ nm_keep_alive_set_settings_connection_watch_visible
    \/ nm_settings_connection_set_flags
    \/ nm_keep_alive_set_dbus_client_watch
    \/ GetNameOwnerDone
    \/ BusNameOwnerChanged
    \/ DeliverNameOwnerChanged
    \/ Dispose

Spec == Init /\ [][Next]_vars

\* ---------------------------------------------- a bus without the clients
\* The same program on a bus where the watched names have no owner: a
\* GetNameOwner call that is not cancelled ends in a failure (NameHasNoOwner)
\* or reports another owner, and no NameOwnerChanged is emitted for a name
\* nobody owns.
GetNameOwnerDoneAbsent ==
    /\ \E b \in {Begin} :
          \E i \in 1..Len(calls) :
              /\ ~calls[i].done
              /\ \E result \in CallResults(i) \ {calls[i].client} :
                    \E r \in {call_done(b, i, result)} : Commit(r)
    /\ UNCHANGED <<disposed, ctorFloating>>

NextAbsent ==
    \/ nm_keep_alive_is_alive
    \/ nm_keep_alive_sink
    \/ nm_keep_alive_set_forced
    \/ nm_keep_alive_set_settings_connection_watch_visible
    \/ nm_settings_connection_set_flags
    \/ nm_keep_alive_set_dbus_client_watch
    \/ GetNameOwnerDoneAbsent
    \/ Dispose

\* The main loop keeps running: the completion of a call in flight is
\* eventually delivered to get_name_owner_cb.
SpecAbsent == Init /\ [][NextAbsent]_vars /\ WF_vars(GetNameOwnerDoneAbsent)

\* ------------------------------------------------------------------ claims
\* The derivation rule as the specification states it, over a context.
DeriveOf(s) ==
    \/ s.priv.floating
    \/ s.priv.forced
    \/ (s.priv.connection # NULL /\ s.visible[s.priv.connection])
    \/ s.priv.dbus_client # NULL

Derive == DeriveOf(Begin)

\* What a handler leaves behind, without the record of what it did.
StateOf(s) == [s EXCEPT !.notifies = <<>>, !.evals = 0, !.issued = 0]

\* C1: for a tracker created floating, after every operation or callback the
\* cached alive value equals floating OR forced OR (source set and visible)
\* OR (a client identity is watched).
C1_AliveIsDerived == (ctorFloating /\ ~disposed) => (priv.alive = Derive)

\* C1 witness: alive rests on the watched client alone (the source that is
\* set is not visible).
C1_Witness ==
    /\ ctorFloating /\ ~disposed
    /\ ~priv.floating /\ ~priv.forced
    /\ priv.connection # NULL /\ ~visible[priv.connection]
    /\ priv.dbus_client # NULL /\ priv.alive

\* C2 (the claim as stated): whatever the constructor argument, the tracker
\* creation returns is floating and alive, and alive equals the derivation.
C2_CreatedFloatingAlive ==
    (priv = nm_keep_alive_new(ctorFloating)) => (priv.floating /\ priv.alive /\ priv.alive = Derive)

\* C3: a step emits notify::alive if and only if it changes the cached alive
\* value, the value a notification carries is the new cached value, and two
\* consecutive notifications carry different values (the first one FALSE).
C3_EdgeTriggered ==
    [][/\ (notifyLog' # notifyLog) <=> (priv'.alive # priv.alive)
       /\ (notifyLog' # notifyLog) => (notifyLog'[Len(notifyLog')] = priv'.alive)
       /\ (Len(notifyLog') = 1) => (notifyLog'[1] = FALSE)
       /\ (Len(notifyLog') = 2) => (notifyLog'[1] # notifyLog'[2])]_vars

\* C3 witness: at least three notifications, the last two being TRUE, FALSE.
C3_Witness == notifyLog = <<TRUE, FALSE>> /\ ~priv.alive

\* C4: on a floating tracker with forced unset, no visible source and no
\* watch, sink() makes alive false and emits exactly one notification, FALSE;
\* in any state a second sink() after a first changes no state, issues no
\* GetNameOwner call and emits no notification.
C4_SinkIdempotent ==
    ~disposed =>
        LET a == sink(Begin)
            b == sink(StateOf(a))
        IN  /\ (priv.floating /\ ~priv.forced /\ ~(priv.connection # NULL /\ visible[priv.connection]) /\ priv.dbus_client = NULL)
                  => (~a.priv.alive /\ a.notifies = <<FALSE>>)
            /\ StateOf(b) = StateOf(a)
            /\ b.notifies = <<>>
            /\ b.issued = 0

\* C4 witness: the state the first sink() of a pristine floating tracker
\* leaves: not alive, one notification so far, FALSE.
C4_Witness ==
    /\ ctorFloating /\ ~disposed
    /\ ~priv.floating /\ ~priv.forced /\ priv.connection = NULL /\ priv.dbus_client = NULL
    /\ subs = <<>> /\ ~priv.alive /\ notifyLog = <<FALSE>>

\* C5: set_forced(v) with v the current flag changes nothing at all (no
\* recomputation, no GetNameOwner call, no notification); with the other
\* value it notifies only if the derived alive value changes.
C5_SetForcedSame ==
    ~disposed =>
        LET a == set_forced(Begin, priv.forced)
            b == set_forced(Begin, ~priv.forced)
        IN  /\ a = Begin
            /\ b.priv.forced = ~priv.forced
            /\ (b.notifies # <<>>) => (DeriveOf(b) # Derive)

\* C5 witness: forced was set on a sunk tracker that was not alive, which
\* made it alive again; set_forced(TRUE) is now the call with the same value.
C5_Witness ==
    /\ ~disposed /\ priv.forced /\ ~priv.floating /\ priv.alive
    /\ priv.dbus_client = NULL /\ ~(priv.connection # NULL /\ visible[priv.connection])
    /\ notifyLog = <<FALSE, TRUE>>

\* C6 (the claim as stated, for a tracker created floating): every call of
\* watchVisibilitySource recomputes the derived value, also with the source
\* already watched, so that after every call cached alive equals the
\* derivation rule.
C6_AlwaysRecomputes ==
    (ctorFloating /\ ~disposed) =>
        \A c \in Sources \cup {NULL} :
            LET a == set_settings_connection_watch_visible(Begin, c)
            IN  a.evals >= 1 /\ a.priv.alive = DeriveOf(a)

\* C6 (amended): a call with a source other than the watched one replaces
\* the source, recomputes once, notifies exactly on a change and leaves
\* cached alive equal to the derivation rule; a call with the source already
\* watched (or none when none is watched) returns without recomputing and
\* changes nothing.
C6_RecomputesOnReplace ==
    ~disposed =>
        \A c \in Sources \cup {NULL} :
            LET a == set_settings_connection_watch_visible(Begin, c)
            IN  IF c = priv.connection
                THEN a = Begin
                ELSE /\ a.priv.connection = c
                     /\ a.evals = 1
                     /\ a.priv.alive = DeriveOf(a)
                     /\ (a.notifies # <<>>) <=> (a.priv.alive # priv.alive)

\* C6 witness: a sunk, unforced, unwatched tracker that is alive again
\* because of the visible source it watches.
C6_Witness ==
    /\ ~disposed /\ ~priv.floating /\ ~priv.forced /\ priv.dbus_client = NULL
    /\ priv.connection # NULL /\ visible[priv.connection] /\ priv.alive
    /\ notifyLog = <<FALSE, TRUE>>

\* The calls of a context that are in flight and not cancelled.
Uncancelled(s) == {i \in 1..Len(s.calls) : ~s.calls[i].done /\ ~s.calls[i].cancelled}

\* The subscriptions of a context that are active.
ActiveSubs(s) == {i \in 1..Len(s.subs) : s.subs[i].active}

\* C7: watchClient tears down the existing watch (its in-flight call is
\* cancelled, its subscription released), arms a new watch for exactly the
\* given identity starting unconfirmed, and recomputes alive; with no
\* identity it only disables watching: no identity, no subscription, no
\* uncancelled call, alive equal to the derivation over what remains.
C7_WatchClient ==
    ~disposed =>
        \A w \in WatchArgs :
            LET r == set_dbus_client_watch(Begin, w[1], w[2])
            IN  /\ Uncancelled(Begin) \cap Uncancelled(r) = {}
                /\ ActiveSubs(Begin) \cap ActiveSubs(r) = {}
                /\ r.evals = 1
                /\ r.priv.alive = DeriveOf(r)
                /\ r.priv.dbus_client = w[2]
                /\ IF w[2] # NULL
                   THEN /\ ActiveSubs(r) = {r.priv.subscription_id}
                        /\ r.priv.subscription_id = Len(subs) + 1
                        /\ r.subs[r.priv.subscription_id].client = w[2]
                        /\ r.priv.dbus_connection = w[1]
                        /\ r.priv.dbus_client_confirmed = (r.issued = 1)
                        /\ r.armCalls = r.issued
                        /\ \A i \in Uncancelled(r) : r.calls[i].client = w[2] /\ i = r.priv.dbus_client_confirm_cancellable
                   ELSE /\ ActiveSubs(r) = {}
                        /\ Uncancelled(r) = {}
                        /\ r.priv.dbus_connection = NULL
                        /\ r.issued = 0

\* C7 witness: a second watch is armed after the first one was torn down
\* with its GetNameOwner call in flight, now cancelled.
C7_Witness ==
    /\ ~disposed /\ Len(subs) = 2 /\ ~subs[1].active /\ subs[2].active
    /\ priv.dbus_client # NULL /\ Len(calls) >= 1 /\ calls[1].cancelled

\* C8 (the claim as stated, for a tracker created floating): while a watch
\* is armed and isAlive() has not been called since, no GetNameOwner call has
\* been issued for it.
C8_NoCallBeforeIsAlive == (ctorFloating /\ priv.dbus_client # NULL /\ ~isAliveSinceArm) => (armCalls = 0)

\* C8 (amended): confirmation is lazy with respect to the derivation, not to
\* isAlive(): no call is issued for a watch no recomputation has evaluated
\* the bus rule for, isAlive() never issues one, and arming issues one at
\* once exactly when floating, forced and visibility are all unset.
C8_LazyInDerivation ==
    /\ (priv.dbus_client # NULL /\ busEvals = 0) => (armCalls = 0)
    /\ ~disposed =>
          /\ is_alive(Begin).issued = 0
          /\ is_alive(Begin).calls = calls
          /\ \A w \in WatchArgs :
                w[2] # NULL =>
                    (set_dbus_client_watch(Begin, w[1], w[2]).issued
                        = IF priv.floating \/ priv.forced \/ (priv.connection # NULL /\ visible[priv.connection]) THEN 0 ELSE 1)

\* C8 witness: a watch armed on a floating tracker, isAlive() called since,
\* and still no GetNameOwner call.
C8_Witness == priv.dbus_client # NULL /\ isAliveSinceArm /\ priv.floating /\ armCalls = 0 /\ calls = <<>>

\* C9: for one arm, however many liveness evaluations follow, at most one
\* GetNameOwner call is issued, and exactly one once an evaluation has
\* reached the bus rule.
C9_OneCallPerArm ==
    (priv.dbus_client # NULL) => (armCalls <= 1 /\ (busEvals >= 1 => armCalls = 1) /\ (priv.dbus_client_confirmed <=> armCalls = 1))

\* C9 witness: the bus rule was evaluated more than once for the current
\* arm, isAlive() was called, and one call was issued.
C9_Witness == priv.dbus_client # NULL /\ busEvals = 2 /\ isAliveSinceArm /\ armCalls = 1

\* C10: the completion of a call that was cancelled by a teardown changes no
\* tracker or watch state, leaves the currently armed watch alone and emits
\* no notification, whatever happened since (re-arm, disposal).
C10_LateCallbackIsNoop ==
    \A i \in 1..Len(calls) :
        (~calls[i].done /\ calls[i].cancelled) =>
            \A result \in CallResults(i) :
                call_done(Begin, i, result) = [Begin EXCEPT !.calls[i] = DoneCall(calls[i])]

\* C10 witness: the completion of a cancelled call was delivered while a
\* later watch is armed.
C10_Witness ==
    /\ Len(subs) = 2 /\ subs[2].active /\ priv.dbus_client # NULL
    /\ \E i \in 1..Len(calls) : calls[i].done /\ calls[i].late

\* The first three rules of the derivation: floating, forced, or a set source
\* that is visible.
KeptWithoutBus(s) == s.priv.floating \/ s.priv.forced \/ (s.priv.connection # NULL /\ s.visible[s.priv.connection])

\* C11: when a confirmation that was not cancelled completes with a failure
\* or with an owner other than the watched identity, the watch is torn down
\* (identity cleared, subscription released, bus reference dropped) and alive
\* is recomputed once; with floating, forced and visibility all unset alive
\* turns from true to false with exactly one notification, otherwise alive
\* stays true and nothing is notified.
C11_RefusedConfirmation ==
    \A i \in Uncancelled(Begin) :
        \A result \in CallResults(i) \ {calls[i].client} :
            LET r == call_done(Begin, i, result)
            IN  /\ priv.alive
                /\ r.priv.dbus_client = NULL
                /\ r.priv.dbus_connection = NULL
                /\ ActiveSubs(r) = {}
                /\ Uncancelled(r) = {}
                /\ r.evals = 1
                /\ r.issued = 0
                /\ IF KeptWithoutBus(Begin)
                   THEN r.priv.alive /\ r.notifies = <<>>
                   ELSE ~r.priv.alive /\ r.notifies = <<FALSE>>

\* C11 witness: a confirmation is in flight for the watch that alone keeps
\* the tracker alive, and its completion with another owner tears the watch
\* down with one notification, FALSE.
C11_Witness ==
    /\ ~KeptWithoutBus(Begin) /\ priv.alive /\ priv.dbus_client # NULL
    /\ \E i \in Uncancelled(Begin) :
          LET r == call_done(Begin, i, OtherOwner)
          IN  r.priv.dbus_client = NULL /\ ~r.priv.alive /\ r.notifies = <<FALSE>>

\* C12: when a confirmation completes with an owner equal to the watched
\* identity nothing changes but the call being finished: the watch stays
\* armed with its subscription, alive keeps its value, nothing is notified,
\* and no recomputation issues another GetNameOwner call for that arm.
C12_MatchingConfirmation ==
    /\ \A i \in Uncancelled(Begin) :
          LET r == call_done(Begin, i, calls[i].client)
          IN  /\ calls[i].client = priv.dbus_client
              /\ StateOf(r) = [Begin EXCEPT !.calls[i] = DoneCall(calls[i])]
              /\ r.notifies = <<>> /\ r.evals = 0 /\ r.issued = 0
              /\ r.priv.dbus_client # NULL
              /\ r.subs[r.priv.subscription_id].active
              /\ r.priv.alive = priv.alive
              /\ _notify_alive(StateOf(r)).issued = 0
    /\ (priv.dbus_client # NULL /\ priv.dbus_client_confirm_cancellable # 0 /\ calls[priv.dbus_client_confirm_cancellable].done)
          => (armCalls = 1 /\ priv.dbus_client_confirmed /\ Uncancelled(Begin) = {})

\* C12 witness: the only call ever issued has completed uncancelled and the
\* first watch is still armed; the bus rule alone keeps the tracker alive and
\* has been evaluated again since the arm.
C12_Witness ==
    /\ Len(subs) = 1 /\ subs[1].active /\ priv.dbus_client # NULL
    /\ Len(calls) = 1 /\ calls[1].done /\ ~calls[1].late
    /\ ~KeptWithoutBus(Begin) /\ priv.alive /\ busEvals = 2 /\ armCalls = 1

\* C13: when GDBus dispatches a NameOwnerChanged with an empty new owner for
\* the watched identity, the watch is torn down (an in-flight confirmation is
\* cancelled, the subscription released) and alive is recomputed once,
\* whether the confirmation was never issued, is in flight or has succeeded;
\* with floating, forced and visibility all unset alive turns from true to
\* false with exactly one notification, otherwise nothing is notified.
C13_NameVacated ==
    \A sig \in signals :
        (sig.new_owner = NoOwner) =>
            LET r == dispatch(Begin, sig)
            IN  /\ sig.sub = priv.subscription_id
                /\ sig.name = priv.dbus_client
                /\ priv.alive
                /\ r.priv.dbus_client = NULL
                /\ r.priv.dbus_connection = NULL
                /\ ActiveSubs(r) = {}
                /\ Uncancelled(r) = {}
                /\ \A i \in Uncancelled(Begin) : r.calls[i].cancelled
                /\ r.priv.dbus_client_confirm_cancellable = 0
                /\ r.evals = 1
                /\ r.issued = 0
                /\ IF KeptWithoutBus(Begin)
                   THEN r.priv.alive /\ r.notifies = <<>>
                   ELSE ~r.priv.alive /\ r.notifies = <<FALSE>>

\* The confirmation of the current arm: "none" while no call was issued,
\* "in flight" or "done".
ConfirmationState ==
    IF armCalls = 0 THEN "none"
    ELSE IF calls[priv.dbus_client_confirm_cancellable].done THEN "done"
    ELSE "in flight"

\* C13 witness: a name-vacated delivery is queued for the watch that alone
\* keeps the tracker alive while its confirmation is in flight; dispatching
\* it cancels the call and notifies once, FALSE.
C13_Witness ==
    /\ ~KeptWithoutBus(Begin) /\ priv.alive /\ priv.dbus_client # NULL
    /\ ConfirmationState = "in flight"
    /\ \E sig \in signals :
          /\ sig.new_owner = NoOwner
          /\ LET r == dispatch(Begin, sig)
             IN  /\ r.calls[priv.dbus_client_confirm_cancellable].cancelled
                 /\ ~r.priv.alive
                 /\ r.notifies = <<FALSE>>

\* C14: the bus check comes last and is short-circuited.  A step issues a
\* GetNameOwner call only if, in the state its recomputation ran on, floating
\* and forced are false and no set source is visible, and then it issues
\* exactly one, for the watched identity; a step that ends with one of the
\* three holding issues none, and an armed, unconfirmed watch it leaves armed
\* stays unconfirmed.
C14_BusCheckLast ==
    [][/\ Len(calls') >= Len(calls)
       /\ (Len(calls') > Len(calls)) =>
             /\ ~KeptWithoutBus([priv |-> priv', visible |-> visible'])
             /\ Len(calls') = Len(calls) + 1
             /\ priv'.dbus_client # NULL
             /\ calls'[Len(calls')].client = priv'.dbus_client
             /\ priv'.dbus_client_confirm_cancellable = Len(calls')
       /\ KeptWithoutBus([priv |-> priv', visible |-> visible']) =>
             /\ Len(calls') = Len(calls)
             /\ (priv'.dbus_client # NULL) => (priv'.dbus_client_confirmed = (priv.dbus_client_confirmed /\ subs' = subs))]_vars

\* C14 witness: a sunk, unforced tracker kept alive by its visible source; a
\* watch was armed after that and isAlive() was called, and no GetNameOwner
\* call was ever issued.
C14_Witness ==
    /\ ~priv.floating /\ ~priv.forced
    /\ priv.connection # NULL /\ visible[priv.connection]
    /\ priv.dbus_client # NULL /\ ~priv.dbus_client_confirmed
    /\ isAliveSinceArm /\ calls = <<>> /\ notifyLog = <<FALSE, TRUE>>

\* C15: in every reachable state without a watched identity there is no
\* active bus subscription, no bus connection reference, no cancellable and
\* no uncancelled call in flight, and no signal delivery is pending; and
\* cleanup_dbus_watch on such a state changes nothing.
C15_TornDownIsClean ==
    (priv.dbus_client = NULL) =>
        /\ ActiveSubs(Begin) = {}
        /\ priv.dbus_connection = NULL
        /\ priv.dbus_client_confirm_cancellable = 0
        /\ Uncancelled(Begin) = {}
        /\ signals = {}
        /\ cleanup_dbus_watch(Begin) = Begin

\* C15 witness: a watch was torn down while its GetNameOwner call was in
\* flight: no identity, the subscription released, the call cancelled and
\* not yet completed.
C15_Witness ==
    /\ ~disposed /\ priv.dbus_client = NULL
    /\ Len(subs) = 1 /\ ~subs[1].active
    /\ Len(calls) = 1 /\ calls[1].cancelled /\ ~calls[1].done

\* C16: at most one uncancelled GetNameOwner call is in flight at any time,
\* and it is the call of the armed watch; re-arming cancels the call in
\* flight before the new watch is armed, and the new watch starts
\* unconfirmed: the first evaluation of the bus rule for it, inside the arming
\* call or later, issues exactly one call.
C16_OneCallInFlight ==
    /\ Cardinality(Uncancelled(Begin)) <= 1
    /\ \A i \in Uncancelled(Begin) :
          /\ priv.dbus_client # NULL
          /\ i = priv.dbus_client_confirm_cancellable
          /\ calls[i].client = priv.dbus_client
    /\ ~disposed =>
          \A w \in WatchArgs :
              (w[2] # NULL) =>
                  LET r == set_dbus_client_watch(Begin, w[1], w[2])
                      e == _is_alive_dbus_client(StateOf(r))
                  IN  /\ \A i \in Uncancelled(Begin) : r.calls[i].cancelled
                      /\ Cardinality(Uncancelled(r)) = r.issued
                      /\ r.priv.dbus_client_confirmed = (r.issued = 1)
                      /\ e.ret
                      /\ r.issued + e.s.issued = 1
                      /\ Cardinality(Uncancelled(e.s)) = 1

\* C16 witness: the watch was re-armed while the first call was in flight;
\* that call is cancelled and the call of the second arm is in flight.
C16_Witness ==
    /\ Len(subs) = 2 /\ subs[2].active /\ priv.dbus_client # NULL
    /\ Len(calls) = 2
    /\ calls[1].cancelled /\ ~calls[1].done
    /\ ~calls[2].cancelled /\ ~calls[2].done
    /\ priv.dbus_client_confirm_cancellable = 2

\* C17: dispose disconnects from the settings connection, cancels the call
\* in flight and releases the bus subscription without emitting notify::alive
\* or changing alive, floating or forced; once disposed, no handler is
\* connected, no subscription is active, no delivery is pending and every
\* call in flight is cancelled, so that no callback body runs on the disposed
\* object, and no step changes its private state or emits a notification.
C17_DisposeSilences ==
    [][disposed' =>
          /\ notifyLog' = notifyLog
          /\ handlers' = {}
          /\ priv'.connection = NULL
          /\ priv'.dbus_client = NULL
          /\ priv'.dbus_connection = NULL
          /\ ActiveSubs([subs |-> subs']) = {}
          /\ Uncancelled([calls |-> calls']) = {}
          /\ signals' = {}
          /\ priv'.alive = priv.alive
          /\ priv'.floating = priv.floating
          /\ priv'.forced = priv.forced
          /\ disposed => priv' = priv]_vars

\* C17 witness: a disposed tracker whose watch was the only thing keeping it
\* alive: no notification was ever emitted, the cancelled call is still in
\* flight and a settings connection is visible.
C17_Witness ==
    /\ disposed /\ ctorFloating /\ ~priv.floating /\ ~priv.forced /\ priv.alive
    /\ notifyLog = <<>>
    /\ Len(subs) = 1 /\ Len(calls) = 1 /\ calls[1].cancelled /\ ~calls[1].done
    /\ \E c \in Sources : visible[c]

\* C18: the flags-changed handler is connected to exactly the current
\* settings connection and to no other, also right after a replacement; a
\* VISIBLE change of any other connection only changes that flag (no
\* recomputation, no GetNameOwner call, no notification), while a change of
\* the current one recomputes alive once and notifies exactly when the
\* derived value changes.
C18_OnlyCurrentSource ==
    /\ handlers = (IF priv.connection = NULL THEN {} ELSE {priv.connection})
    /\ ~disposed =>
          \A c \in Sources \cup {NULL} :
              set_settings_connection_watch_visible(Begin, c).handlers = (IF c = NULL THEN {} ELSE {c})
    /\ \A src \in Sources :
          LET r == set_flags(Begin, src)
          IN  IF src = priv.connection
              THEN /\ r.evals = 1
                   /\ priv.alive = Derive
                   /\ r.priv.alive = DeriveOf(r)
                   /\ r.notifies = (IF DeriveOf(r) # Derive THEN <<DeriveOf(r)>> ELSE <<>>)
              ELSE r = [Begin EXCEPT !.visible[src] = ~@]

\* C18 witness: connA was watched and kept the tracker alive, then connB,
\* which is not visible, replaced it; now a VISIBLE change of connA changes
\* nothing but the flag, and one of connB notifies TRUE.
C18_Witness ==
    /\ ~disposed /\ ~priv.floating /\ ~priv.forced /\ priv.dbus_client = NULL
    /\ priv.connection = "connB" /\ ~visible["connB"] /\ ~visible["connA"]
    /\ ~priv.alive /\ notifyLog = <<TRUE, FALSE>>
    /\ set_flags(Begin, "connA").notifies = <<>>
    /\ set_flags(Begin, "connA").evals = 0
    /\ set_flags(Begin, "connB").notifies = <<TRUE>>

\* C19: a NameOwnerChanged reaches only the watch it was subscribed for.
\* Every pending delivery belongs to the armed watch and carries its
\* identity; a signal for any other name, the identity of a replaced watch
\* included, matches no subscription; re-arming drops the deliveries queued
\* for the replaced watch; and a delivery with a non-empty new owner changes
\* nothing but the queue.
C19_SignalsOfCurrentWatchOnly ==
    /\ \A sig \in signals :
          /\ priv.dbus_client # NULL
          /\ sig.sub = priv.subscription_id
          /\ sig.name = priv.dbus_client
          /\ (sig.new_owner # NoOwner) => (dispatch(Begin, sig) = [Begin EXCEPT !.signals = @ \ {sig}])
    /\ \A name \in Clients :
          /\ (name # priv.dbus_client) => (Matching(name) = {})
          /\ (name = priv.dbus_client) => (Matching(name) = {priv.subscription_id})
          /\ \A new_owner \in NewOwners :
                LET e == emit(Begin, name, new_owner)
                IN  (name # priv.dbus_client) => (e = Begin)
    /\ ~disposed =>
          \A w \in WatchArgs :
              LET r == set_dbus_client_watch(Begin, w[1], w[2])
              IN  /\ r.signals = {}
                  /\ \A j \in ActiveSubs(Begin) : ~r.subs[j].active

\* C19 witness: the watch on :1.X was replaced by one on :1.Y, which alone
\* keeps the tracker alive; a signal for :1.X matches no subscription, and a
\* delivery for :1.Y with a non-empty new owner is pending.
C19_Witness ==
    /\ Len(subs) = 2 /\ ~subs[1].active /\ subs[2].active
    /\ priv.dbus_client = ":1.Y" /\ priv.subscription_id = 2
    /\ Len(calls) = 2 /\ calls[1].client = ":1.X" /\ calls[1].cancelled
    /\ ~KeptWithoutBus(Begin) /\ priv.alive
    /\ Matching(":1.X") = {}
    /\ emit(Begin, ":1.X", NoOwner) = Begin
    /\ \E sig \in signals : sig.new_owner = OtherOwner /\ dispatch(Begin, sig).priv = priv

\* C20 (on a bus where the watched names have no owner, completions being
\* delivered eventually): whenever a watch is armed on a tracker that is not
\* floating, not forced and not visible, its GetNameOwner call has been
\* issued, by the very step that first evaluated the bus rule for it; and
\* from such a state the tracker reaches a state with the watch torn down and
\* alive false, unless it is meanwhile forced, made visible, re-armed or
\* disposed.  Nothing polls: the only steps are the mutators and the
\* completion callback.
C20_AbsenceDetected ==
    /\ []((priv.dbus_client # NULL) => ((busEvals >= 1) <=> (armCalls = 1)))
    /\ []((priv.dbus_client # NULL /\ ~KeptWithoutBus(Begin)) => (armCalls = 1))
    /\ \A k \in 1..MaxArms :
          (priv.dbus_client # NULL /\ priv.subscription_id = k /\ ~KeptWithoutBus(Begin) /\ ~disposed)
              ~> \/ priv.dbus_client = NULL /\ ~priv.alive
                 \/ KeptWithoutBus(Begin)
                 \/ priv.subscription_id # k
                 \/ disposed

\* C20 witness: the only call ever issued completed uncancelled on the bus
\* without the clients; the watch is torn down, nothing else keeps the
\* tracker alive, alive is false and FALSE was the last notification.
C20_Witness ==
    /\ ~disposed /\ priv.dbus_client = NULL /\ ~KeptWithoutBus(Begin) /\ ~priv.alive
    /\ Len(subs) = 1 /\ ~subs[1].active
    /\ Len(calls) = 1 /\ calls[1].done /\ ~calls[1].late
    /\ notifyLog # <<>> /\ notifyLog[Len(notifyLog)] = FALSE
====
